---- MODULE Spec2Model ----
(***************************************************************************)
(* A model of check_pgsql_server.py: the Nagios threshold mini-language    *)
(* (is_within_range), the severity decision (return_nagios), the query     *)
(* classes (MSSQLQuery, MSSQLDivideQuery, MSSQLDeltaQuery), the option     *)
(* parser, main, execute_query and the exception handlers of __main__.     *)
(*                                                                         *)
(* Conventions.                                                            *)
(*  - A Python number is a rational [n, d] with d > 0; Python's None is    *)
(*    the record PyNone (d = 0), so that every value has one shape.        *)
(*  - A text is a sequence of one-character strings; an option that was    *)
(*    not given (None) is the one-element sequence NoText.                 *)
(*  - The script runs under `#!/usr/bin/env python`, imports cPickle with  *)
(*    a fallback to pickle, and is written to parse under both major       *)
(*    versions: the variable `python` is the interpreter (2 or 3) that the *)
(*    environment provides.  The two differ in comparing None with a       *)
(*    number and in pickling through a file opened in text mode.           *)
(***************************************************************************)
EXTENDS Integers, Sequences, FiniteSets, TLC

VARIABLES
    python,      \* the interpreter's major version: 2 or 3
    argv,        \* the command line of this invocation
    MODES,       \* the global mode registry (line 41), mutated by execute_query
    options,     \* the parsed options; options.parsed is FALSE before parse_args
    pc,          \* where the process is
    connected,   \* psycopg2.connect has been called and returned
    total,       \* connect_db's elapsed time
    executed,    \* number of queries executed on the connection
    mssql_query, \* the query object built by execute_query (or by the caller of do)
    steps,       \* the methods of do() run so far by this invocation, in order
    raised,      \* the exception that left main(), as the handlers of __main__ see it
    printed,     \* the lines written to standard output, in order
    exit_code,   \* the process exit code once pc = "exit"
    tmpdir,      \* tempfile.gettempdir(): identity -> contents of its state file
    now,         \* the wall clock, time.time()
    runs,        \* one record per MSSQLDeltaQuery.calculate_result call so far
    intent,      \* what the operator meant by the threshold texts (test input)
    nagstring,   \* input of the is_within_range evaluation under SpecRange
    value,       \* input of the is_within_range evaluation under SpecRange
    within       \* its outcome, "pending" before the call

vars == <<python, argv, MODES, options, pc, connected, total, executed, mssql_query,
          steps, raised, printed, exit_code, tmpdir, now, runs, intent, nagstring,
          value, within>>

(***************************************************************************)
(* Bounds of the model.                                                    *)
(***************************************************************************)
IntStep == 5
MaxMult == 2
MaxTime == 4
MaxRuns == 2

(***************************************************************************)
(* Python numbers.                                                         *)
(***************************************************************************)
Rat(n, d) == [n |-> n, d |-> d]
PyNone == [n |-> 0, d |-> 0]
IsNone(v) == v.d = 0
Zero == Rat(0, 1)
Gt(a, b) == a.n * b.d > b.n * a.d
Lt(a, b) == a.n * b.d < b.n * a.d
Eq(a, b) == a.n * b.d = b.n * a.d
Sub(a, b) == Rat(a.n * b.d - b.n * a.d, a.d * b.d)
Mul(a, b) == Rat(a.n * b.n, a.d * b.d)
\* a / b for b # 0, the denominator kept positive
Div(a, b) == IF b.n > 0 THEN Rat(a.n * b.d, a.d * b.n)
             ELSE Rat(0 - a.n * b.d, 0 - a.d * b.n)

\* value > x as the interpreter evaluates it for a number or (Python 2) None:
\* Python 2 orders None below every number.
PyGt(v, x) == IF IsNone(v) THEN FALSE ELSE Gt(v, x)
PyLt(v, x) == IF IsNone(v) THEN TRUE ELSE Lt(v, x)

(***************************************************************************)
(* Texts.                                                                  *)
(***************************************************************************)
NoText == <<"<None>">>
Digits == {"0", "1", "2", "3", "4", "5", "6", "7", "8", "9"}
DigitVal(c) == CASE c = "0" -> 0 [] c = "1" -> 1 [] c = "2" -> 2 [] c = "3" -> 3
                 [] c = "4" -> 4 [] c = "5" -> 5 [] c = "6" -> 6 [] c = "7" -> 7
                 [] c = "8" -> 8 [] c = "9" -> 9

RECURSIVE DigitsVal(_)
DigitsVal(s) == IF s = <<>> THEN 0
                ELSE DigitsVal(SubSeq(s, 1, Len(s) - 1)) * 10 + DigitVal(s[Len(s)])

RECURSIVE Pow10(_)
Pow10(k) == IF k = 0 THEN 1 ELSE 10 * Pow10(k - 1)

\* [0-9]+
IsDigits(s) == Len(s) >= 1 /\ \A i \in 1..Len(s) : s[i] \in Digits

\* -?[0-9]+(\.[0-9]+)? matching the whole of s (first_float, second_float)
IsFloatText(s) ==
    LET body == IF Len(s) > 0 /\ s[1] = "-" THEN Tail(s) ELSE s
        dots == {i \in 1..Len(body) : body[i] = "."}
    IN  IF dots = {} THEN IsDigits(body)
        ELSE /\ Cardinality(dots) = 1
             /\ LET i == CHOOSE j \in dots : TRUE
                IN  /\ IsDigits(SubSeq(body, 1, i - 1))
                    /\ IsDigits(SubSeq(body, i + 1, Len(body)))

\* float(text) of a text that matched first_float
float(s) ==
    LET neg  == Len(s) > 0 /\ s[1] = "-"
        body == IF neg THEN Tail(s) ELSE s
        dots == {i \in 1..Len(body) : body[i] = "."}
        i    == IF dots = {} THEN Len(body) + 1 ELSE CHOOSE j \in dots : TRUE
        ip   == SubSeq(body, 1, i - 1)
        fp   == SubSeq(body, i + 1, Len(body))
        mag  == DigitsVal(ip) * Pow10(Len(fp)) + DigitsVal(fp)
    IN  Rat(IF neg THEN 0 - mag ELSE mag, Pow10(Len(fp)))

\* `$` matches at the end of the text and also before one final newline
Chomp(s) == IF Len(s) > 0 /\ s[Len(s)] = "\n" THEN SubSeq(s, 1, Len(s) - 1) ELSE s

NoMatch == [ok |-> FALSE, first |-> <<>>, second |-> <<>>]

MatchOne(t) == IF IsFloatText(t) THEN [ok |-> TRUE, first |-> t, second |-> <<>>]
               ELSE NoMatch

MatchTwo(t) ==
    LET cuts == {i \in 1..Len(t) : /\ t[i] = ":"
                                   /\ IsFloatText(SubSeq(t, 1, i - 1))
                                   /\ IsFloatText(SubSeq(t, i + 1, Len(t)))}
    IN  IF cuts = {} THEN NoMatch
        ELSE LET i == CHOOSE j \in cuts : TRUE
             IN  [ok |-> TRUE, first |-> SubSeq(t, 1, i - 1),
                  second |-> SubSeq(t, i + 1, Len(t))]

\* re.match(actions[k][0], nagstring), k = 1..5 in the order of the list
re_match(k, text) ==
    LET s == Chomp(text)
    IN  CASE k = 1 -> MatchOne(s)
          [] k = 2 -> IF Len(s) >= 1 /\ s[Len(s)] = ":"
                      THEN MatchOne(SubSeq(s, 1, Len(s) - 1)) ELSE NoMatch
          [] k = 3 -> IF Len(s) >= 2 /\ s[1] = "~" /\ s[2] = ":"
                      THEN MatchOne(SubSeq(s, 3, Len(s))) ELSE NoMatch
          [] k = 4 -> MatchTwo(s)
          [] k = 5 -> IF Len(s) >= 1 /\ s[1] = "@" THEN MatchTwo(Tail(s)) ELSE NoMatch

\* actions[k][1](y): the lambda of pattern k applied to the match y
BrokenLambda(k, y, v) ==
    CASE k = 1 -> PyGt(v, float(y.first))
      [] k = 2 -> PyLt(v, float(y.first))
      [] k = 3 -> PyGt(v, float(y.first))
      [] k = 4 -> PyLt(v, float(y.first)) \/ PyGt(v, float(y.second))
      [] k = 5 -> PyLt(v, float(y.first)) \/ PyGt(v, float(y.second))

Lambda(k, y, v) ==
    CASE k = 1 -> PyGt(v, float(y.first)) \/ PyLt(v, Zero)
      [] k = 2 -> PyLt(v, float(y.first))
      [] k = 3 -> PyGt(v, float(y.first))
      [] k = 4 -> PyLt(v, float(y.first)) \/ PyGt(v, float(y.second))
      [] k = 5 -> ~(PyLt(v, float(y.first)) \/ PyGt(v, float(y.second)))

PyBool(b) == IF b THEN "True" ELSE "False"

\* "True", "False", or the exception raised: "Exception" for a text that no
\* pattern matches, "TypeError" for None compared with a float under Python 3.
is_within_range(text, v) ==
    IF text = NoText \/ text = <<>> THEN "False"
    ELSE LET hits == {k \in 1..5 : re_match(k, text).ok}
         IN  IF hits = {} THEN "Exception"
             ELSE LET k == CHOOSE j \in hits : \A h \in hits : j <= h
                  IN  IF IsNone(v) /\ python = 3 THEN "TypeError"
                      ELSE PyBool(Lambda(k, re_match(k, text), v))

(***************************************************************************)
(* Exceptions and output lines.                                            *)
(***************************************************************************)
NoMode == "<None>"

Message(prefix, text, label, result, unit, warning, critical) ==
    [prefix |-> prefix, stdout |-> text, label |-> label, result |-> result,
     unit |-> unit, warning |-> warning, critical |-> critical]

\* a line that is not a report: str(e), str(type(e)) or the fixed hint of line 309
Line(text) == Message("", text, "", PyNone, "", <<>>, <<>>)

Exc(type, code, message) == [type |-> type, code |-> code, message |-> message]
NoException == Exc("", 0, Line(""))

\* options.warning or ''
OrEmpty(text) == IF text = NoText THEN <<>> ELSE text

(***************************************************************************)
(* return_nagios: the exception it raises.  Critical is evaluated first;   *)
(* the warning text is evaluated only when critical did not alert.         *)
(***************************************************************************)
WarningFirst(opts, text, result, unit, label) ==
    LET w == is_within_range(opts.warning, result)
        m(prefix) == Message(prefix, text, label, result, unit,
                             OrEmpty(opts.warning), OrEmpty(opts.critical))
    IN  IF w \in {"Exception", "TypeError"} THEN Exc(w, 0, Line(""))
        ELSE IF w = "True" THEN Exc("NagiosReturn", 1, m("WARNING: "))
        ELSE LET c == is_within_range(opts.critical, result)
             IN  IF c \in {"Exception", "TypeError"} THEN Exc(c, 0, Line(""))
                 ELSE IF c = "True" THEN Exc("NagiosReturn", 2, m("CRITICAL: "))
                 ELSE Exc("NagiosReturn", 0, m("OK: "))

return_nagios(opts, text, result, unit, label) ==
    LET c == is_within_range(opts.critical, result)
        m(prefix) == Message(prefix, text, label, result, unit,
                             OrEmpty(opts.warning), OrEmpty(opts.critical))
    IN  IF c \in {"Exception", "TypeError"} THEN Exc(c, 0, Line(""))
        ELSE IF c = "True" THEN Exc("NagiosReturn", 2, m("CRITICAL: "))
        ELSE LET w == is_within_range(opts.warning, result)
             IN  IF w \in {"Exception", "TypeError"} THEN Exc(w, 0, Line(""))
                 ELSE IF w = "True" THEN Exc("NagiosReturn", 1, m("WARNING: "))
                 ELSE Exc("NagiosReturn", 0, m("OK: "))

(***************************************************************************)
(* The mode registry as shipped (lines 41-55): both modes are standard     *)
(* queries ('cpu' has no 'type', which execute_query treats as standard).  *)
(* `wired` records the 'options' and 'host' keys execute_query adds.       *)
(***************************************************************************)
Entry(type, label, unit, text) ==
    [type |-> type, label |-> label, unit |-> unit, stdout |-> text, modifier |-> 1,
     wired |-> FALSE]

ShippedModes ==
    [m \in {"connections", "cpu"} |->
        IF m = "connections"
        THEN Entry("standard", "connections", "", "Number of open connections is %s")
        ELSE Entry(NoMode, "cpu", "%", "Current CPU utilization is %s%%")]

\* MSSQLQuery.__init__ (and the subclasses, which inherit it)
NewQuery(cls, entry, host) ==
    [cls |-> cls, label |-> entry.label, unit |-> entry.unit, stdout |-> entry.stdout,
     host |-> host, modifier |-> entry.modifier, query_result |-> <<>>,
     result |-> PyNone]

NoQuery == NewQuery("", Entry("", "", "", ""), "")

(***************************************************************************)
(* parse_args: optparse rejects an option it does not know, then the       *)
(* checks of lines 195-210.  parser.error writes to standard error and     *)
(* calls sys.exit(2).                                                      *)
(***************************************************************************)
NoOptions == [parsed |-> FALSE, mode |-> NoMode, warning |-> NoText, critical |-> NoText]

parse_args(a, known) ==
    IF \/ ~(a.flags \subseteq known)
       \/ "hostname" \notin a.given
       \/ "user" \notin a.given
       \/ "password" \notin a.given
       \/ {"instance", "port"} \subseteq a.given
       \/ Cardinality(a.flags) > 1
    THEN [error |-> TRUE, options |-> NoOptions]
    ELSE [error |-> FALSE,
          options |-> [parsed |-> TRUE,
                       mode |-> IF a.flags = {} THEN NoMode
                                ELSE CHOOSE f \in a.flags : TRUE,
                       warning |-> a.warning, critical |-> a.critical]]

ParseArgs ==
    /\ pc = "parse_args"
    /\ LET r == parse_args(argv, DOMAIN MODES)
       IN  IF r.error
           THEN /\ raised' = Exc("SystemExit", 2, Line(""))
                /\ pc' = "raised"
                /\ UNCHANGED options
           ELSE /\ options' = r.options
                /\ pc' = "connect_db"
                /\ UNCHANGED raised
    /\ UNCHANGED <<python, argv, MODES, connected, total, executed, mssql_query, steps,
                   printed, exit_code, tmpdir, now, runs, intent, nagstring, value,
                   within>>

(***************************************************************************)
(* connect_db: psycopg2.connect either returns a connection, after some    *)
(* elapsed time, or raises OperationalError.                               *)
(***************************************************************************)
ConnectTimes == {Rat(1, 2), Rat(2 * IntStep + 1, 2)}

ConnectDb ==
    /\ pc = "connect_db"
    /\ \/ /\ connected' = TRUE
          /\ \E t \in ConnectTimes : total' = t
          /\ pc' = "main"
          /\ UNCHANGED raised
       \/ /\ raised' = Exc("OperationalError", 0, Line(""))
          /\ pc' = "raised"
          /\ UNCHANGED <<connected, total>>
    /\ UNCHANGED <<python, argv, MODES, options, executed, mssql_query, steps, printed,
                   exit_code, tmpdir, now, runs, intent, nagstring, value, within>>

(***************************************************************************)
(* main after connect_db, lines 249-260.  run_tests starts by deleting     *)
(* MODES['time2connect'], which the registry does not hold: KeyError.      *)
(***************************************************************************)
Main ==
    /\ pc = "main"
    /\ IF options.mode = "test"
       THEN raised' = Exc("KeyError", 0, Line("")) /\ pc' = "raised"
       ELSE IF options.mode = NoMode \/ options.mode = "time2connect"
       THEN /\ raised' = return_nagios(options, "Time to connect was %ss", total, "s",
                                       "time")
            /\ pc' = "raised"
       ELSE pc' = "execute_query" /\ UNCHANGED raised
    /\ UNCHANGED <<python, argv, MODES, options, connected, total, executed,
                   mssql_query, steps, printed, exit_code, tmpdir, now, runs, intent,
                   nagstring, value, within>>

(***************************************************************************)
(* execute_query, lines 262-273.  The call of do() is inside the else      *)
(* branch: a 'delta' or 'divide' query is constructed and never run, and   *)
(* execute_query, then main, return normally.                              *)
(***************************************************************************)
AfterConstruction(type) ==
    IF type = "delta" \/ type = "divide" THEN "main_returned" ELSE "run_on_connection"

ClassOf(type) ==
    IF type = "delta" THEN "MSSQLDeltaQuery"
    ELSE IF type = "divide" THEN "MSSQLDivideQuery" ELSE "MSSQLQuery"

ExecuteQuery ==
    /\ pc = "execute_query"
    /\ LET sql_query == [MODES[options.mode] EXCEPT !.wired = TRUE]
       IN  /\ MODES' = [MODES EXCEPT ![options.mode] = sql_query]
           /\ mssql_query' = NewQuery(ClassOf(sql_query.type), sql_query, "host")
           /\ pc' = AfterConstruction(sql_query.type)
    /\ UNCHANGED <<python, argv, options, connected, total, executed, steps, raised,
                   printed, exit_code, tmpdir, now, runs, intent, nagstring, value,
                   within>>

(***************************************************************************)
(* MSSQLQuery.run_on_connection (inherited by MSSQLDeltaQuery):            *)
(* cur.execute may raise; fetchone() is None when there is no row, and     *)
(* None[0] is a TypeError.                                                 *)
(***************************************************************************)
QueryValues == {0 - IntStep, 0, IntStep - 1, IntStep + 2, 2 * IntStep + 2}

RunOnConnection ==
    /\ pc = "run_on_connection"
    /\ mssql_query.cls \in {"MSSQLQuery", "MSSQLDeltaQuery"}
    /\ executed' = executed + 1
    /\ \/ /\ raised' = Exc("OperationalError", 0, Line(""))
          /\ pc' = "raised"
          /\ UNCHANGED <<mssql_query, steps>>
       \/ /\ raised' = Exc("TypeError", 0, Line(""))
          /\ pc' = "raised"
          /\ UNCHANGED <<mssql_query, steps>>
       \/ /\ \E x \in QueryValues :
                mssql_query' = [mssql_query EXCEPT !.query_result = <<Rat(x, 1)>>]
          /\ steps' = Append(steps, "run_on_connection")
          /\ pc' = "calculate_result"
          /\ UNCHANGED raised
    /\ UNCHANGED <<python, argv, MODES, options, connected, total, printed, exit_code,
                   tmpdir, now, runs, intent, nagstring, value, within>>

(***************************************************************************)
(* The state file of MSSQLDeltaQuery.  Its contents are one of: no file    *)
(* ("missing"), a file of length 0 ("empty"), a pickle cut short           *)
(* ("partial"), bytes that are no pickle ("corrupt"), or the dictionary a  *)
(* previous run dumped ("record").                                         *)
(***************************************************************************)
File(state, time, query_result) ==
    [state |-> state, time |-> time, query_result |-> query_result]

Hosts == {"db1", "db2"}

\* make_pickle_name: the file of hash(host + query); the query text is the
\* mode's, so the host tells the identities of this model apart.
make_pickle_name(q) == q.host

\* pickle.load(tmpfile), tmpfile opened in text mode: the outcomes it can have.
\* Python 3's unpickler reads str from a text-mode file and raises TypeError
\* whatever the file holds.  Under Python 2 an empty file raises EOFError, a
\* pickle cut short raises EOFError or another error depending on where it was
\* cut, and other bytes raise an error that is not EOFError.
LoadOutcomes(file) ==
    IF python = 3 THEN {"TypeError"}
    ELSE CASE file.state \in {"missing", "empty"} -> {"EOFError"}
           [] file.state = "partial" -> {"EOFError", "UnpicklingError"}
           [] file.state = "corrupt" -> {"UnpicklingError"}
           [] file.state = "record" -> {"loaded"}

\* `except EOFError as ValueError` (line 147) catches EOFError only
Caught(outcome) == outcome = "EOFError"

\* the rate of lines 153-157
Rate(new_val, old_val, new_time, old_time, modifier) ==
    Mul(Div(Sub(new_val, old_val), Rat(new_time - old_time, 1)), modifier)

Run(q, prior, outcome, result, read_at, written_at) ==
    [host |-> make_pickle_name(q), prior |-> prior, value |-> q.query_result[1],
     modifier |-> q.modifier, outcome |-> outcome, result |-> result,
     read_at |-> read_at, written_at |-> written_at]

(***************************************************************************)
(* calculate_result.  MSSQLQuery: float(query_result) * modifier.          *)
(* MSSQLDeltaQuery, lines 135-166: open (creating the file when it is      *)
(* missing), load, compute when the loaded time is truthy, then dump the   *)
(* new sample.  An exception leaves the method at the statement that       *)
(* raised it, so nothing after that statement happens.                     *)
(***************************************************************************)
CalculateDirect ==
    /\ pc = "calculate_result"
    /\ mssql_query.cls = "MSSQLQuery"
    /\ mssql_query' = [mssql_query EXCEPT
                          !.result = Mul(mssql_query.query_result[1],
                                         Rat(mssql_query.modifier, 1))]
    /\ steps' = Append(steps, "calculate_result")
    /\ pc' = "finish"
    /\ UNCHANGED <<python, argv, MODES, options, connected, total, executed, raised,
                   printed, exit_code, tmpdir, now, runs, intent, nagstring, value,
                   within>>

CalculateDelta ==
    /\ pc = "calculate_result"
    /\ mssql_query.cls = "MSSQLDeltaQuery"
    /\ UNCHANGED <<python, argv, MODES, options, connected, total, executed, printed,
                   exit_code, intent, nagstring, value, within>>
    /\ LET name    == make_pickle_name(mssql_query)
           prior   == tmpdir[name]
           opened  == IF prior.state = "missing" THEN File("empty", 0, Zero) ELSE prior
           new_val == mssql_query.query_result[1]
           fail(type, dir, t) ==
               /\ raised' = Exc(type, 0, Line(""))
               /\ tmpdir' = dir
               /\ now' = t
               /\ runs' = Append(runs, Run(mssql_query, prior, "raise", PyNone, t, 0))
               /\ pc' = "raised"
               /\ UNCHANGED <<mssql_query, steps>>
           done(kind, result, t1, t2) ==
               /\ mssql_query' = [mssql_query EXCEPT !.result = result]
               /\ tmpdir' = [tmpdir EXCEPT ![name] = File("record", t2, new_val)]
               /\ now' = t2
               /\ runs' = Append(runs, Run(mssql_query, prior, kind, result, t1, t2))
               /\ steps' = Append(steps, "calculate_result")
               /\ pc' = "finish"
               /\ UNCHANGED raised
       IN  \E outcome \in LoadOutcomes(opened) :
             IF outcome # "loaded" /\ ~Caught(outcome)
             THEN fail(outcome, [tmpdir EXCEPT ![name] = opened], now)
             ELSE IF outcome = "loaded" /\ opened.time # 0
             THEN \E t1 \in now..MaxTime :
                     IF t1 = opened.time
                     THEN fail("ZeroDivisionError", tmpdir, t1)
                     ELSE \E t2 \in t1..MaxTime :
                             done("rate",
                                  Rate(new_val, opened.query_result, t1, opened.time,
                                       Rat(mssql_query.modifier, 1)),
                                  t1, t2)
             ELSE \E t2 \in now..MaxTime : done("absent", PyNone, t2, t2)

(***************************************************************************)
(* finish: return_nagios always raises.                                    *)
(***************************************************************************)
Finish ==
    /\ pc = "finish"
    /\ raised' = return_nagios(options, mssql_query.stdout, mssql_query.result,
                               mssql_query.unit, mssql_query.label)
    /\ steps' = Append(steps, "finish")
    /\ pc' = "raised"
    /\ UNCHANGED <<python, argv, MODES, options, connected, total, executed,
                   mssql_query, printed, exit_code, tmpdir, now, runs, intent,
                   nagstring, value, within>>

(***************************************************************************)
(* __main__, lines 292-310: the except clauses in their order.  SystemExit *)
(* is no Exception and passes them all; main returning normally ends the   *)
(* process with code 0 and nothing printed.                                *)
(***************************************************************************)
Output(e) ==
    IF e.type \in {"OperationalError", "InterfaceError", "IOError"}
    THEN <<Line("str(e)")>>
    ELSE IF e.type = "NagiosReturn" THEN <<e.message>>
    ELSE IF e.type = "SystemExit" THEN <<>>
    ELSE <<Line("str(type(e))"), Line("Caught unexpected error.")>>

ExitCode(e) ==
    IF e.type \in {"NagiosReturn", "SystemExit"} THEN e.code ELSE 3

Handlers ==
    /\ pc \in {"raised", "main_returned"}
    /\ IF pc = "main_returned"
       THEN exit_code' = 0 /\ UNCHANGED printed
       ELSE exit_code' = ExitCode(raised) /\ printed' = printed \o Output(raised)
    /\ pc' = "exit"
    /\ UNCHANGED <<python, argv, MODES, options, connected, total, executed,
                   mssql_query, steps, raised, tmpdir, now, runs, intent, nagstring,
                   value, within>>

(***************************************************************************)
(* Inputs: what the operator means by a threshold, and the text that says  *)
(* it on the command line.  A decimal is a sign, an integer part and an    *)
(* optional fractional digit (frac = -1: none).                            *)
(***************************************************************************)
Ints == {i * IntStep : i \in 0..MaxMult}
Decimals == [neg : BOOLEAN, int : Ints, frac : {-1, 5}]
CliDecimals == {d \in Decimals : ~d.neg /\ d.frac = -1 /\ d.int \in {IntStep, 2 * IntStep}}

DecValue(d) ==
    LET mag == d.int * 10 + (IF d.frac < 0 THEN 0 ELSE d.frac)
    IN  Rat(IF d.neg THEN 0 - mag ELSE mag, 10)

Chr(n) == CASE n = 0 -> "0" [] n = 1 -> "1" [] n = 2 -> "2" [] n = 3 -> "3"
            [] n = 4 -> "4" [] n = 5 -> "5" [] n = 6 -> "6" [] n = 7 -> "7"
            [] n = 8 -> "8" [] n = 9 -> "9"

RECURSIVE IntDigits(_)
IntDigits(n) == IF n < 10 THEN <<Chr(n)>> ELSE IntDigits(n \div 10) \o <<Chr(n % 10)>>

FmtDec(d) ==
    (IF d.neg THEN <<"-">> ELSE <<>>) \o IntDigits(d.int)
        \o (IF d.frac < 0 THEN <<>> ELSE <<".">> \o IntDigits(d.frac))

RangeSpec(kind, lo, hi, raw) == [kind |-> kind, lo |-> lo, hi |-> hi, raw |-> raw]
NoDecimal == [neg |-> FALSE, int |-> 0, frac |-> -1]
Absent == RangeSpec("Absent", NoDecimal, NoDecimal, <<>>)
Empty == RangeSpec("Empty", NoDecimal, NoDecimal, <<>>)
Malformed(t) == RangeSpec("Malformed", NoDecimal, NoDecimal, t)

RangeSpecsOver(D) ==
    {RangeSpec(k, d, d, <<>>) : k \in {"AtMost", "BelowOnly", "AboveOnly"}, d \in D}
        \cup {RangeSpec(k, lo, hi, <<>>) : k \in {"Outside", "Inside"}, lo \in D, hi \in D}

Text(r) ==
    CASE r.kind = "Absent" -> NoText
      [] r.kind = "Empty" -> <<>>
      [] r.kind = "Malformed" -> r.raw
      [] r.kind = "AtMost" -> FmtDec(r.lo)
      [] r.kind = "BelowOnly" -> FmtDec(r.lo) \o <<":">>
      [] r.kind = "AboveOnly" -> <<"~", ":">> \o FmtDec(r.lo)
      [] r.kind = "Outside" -> FmtDec(r.lo) \o <<":">> \o FmtDec(r.hi)
      [] r.kind = "Inside" -> <<"@">> \o FmtDec(r.lo) \o <<":">> \o FmtDec(r.hi)

WellFormed(r) == r.kind \in {"AtMost", "BelowOnly", "AboveOnly", "Outside", "Inside"}

\* the alert condition of each grammar, on the numbers the operator wrote
AlertCondition(r, v) ==
    CASE r.kind = "AtMost" -> Gt(v, DecValue(r.lo)) \/ Lt(v, Zero)
      [] r.kind = "BelowOnly" -> Lt(v, DecValue(r.lo))
      [] r.kind = "AboveOnly" -> Gt(v, DecValue(r.lo))
      [] r.kind = "Outside" -> Lt(v, DecValue(r.lo)) \/ Gt(v, DecValue(r.hi))
      [] r.kind = "Inside" -> ~Lt(v, DecValue(r.lo)) /\ ~Gt(v, DecValue(r.hi))
      [] OTHER -> FALSE

BadTexts == {<<"a", "b", "c">>, <<"5", ":", "3", ":">>, <<"~", "5">>, <<"5", ".">>,
             <<"@", "5", ":">>, <<":">>}
CliBadTexts == {<<"a", "b", "c">>, <<"5", ":", "3", ":">>}

CliThresholds ==
    {Absent, Empty} \cup RangeSpecsOver(CliDecimals) \cup {Malformed(t) : t \in CliBadTexts}

Required == {"hostname", "user", "password"}
GivenSets == {Required, Required \cup {"port"}, Required \cup {"instance", "port"},
              Required \ {"hostname"}, Required \ {"user"}, Required \ {"password"}}
FlagSets(registry) ==
    {{}, {"bogus"}, {"connections", "cpu"}} \cup {{m} : m \in DOMAIN registry}

(***************************************************************************)
(* The program: one invocation of the script from the command line.        *)
(***************************************************************************)
Start(registry) ==
    /\ python \in {2, 3}
    /\ \E g \in GivenSets, f \in FlagSets(registry), w \in CliThresholds,
          c \in CliThresholds :
          /\ argv = [given |-> g, flags |-> f, warning |-> Text(w), critical |-> Text(c)]
          /\ intent = [warning |-> w, critical |-> c]
    /\ MODES = registry
    /\ options = NoOptions
    /\ pc = "parse_args"
    /\ connected = FALSE
    /\ total = Zero
    /\ executed = 0
    /\ mssql_query = NoQuery
    /\ steps = <<>>
    /\ raised = NoException
    /\ printed = <<>>
    /\ exit_code = -1
    /\ tmpdir = [h \in Hosts |-> File("missing", 0, Zero)]
    /\ now = 1
    /\ runs = <<>>
    /\ nagstring = NoText
    /\ value = Zero
    /\ within = "unused"

Init == Start(ShippedModes)

Next ==
    \/ ParseArgs
    \/ ConnectDb
    \/ Main
    \/ ExecuteQuery
    \/ RunOnConnection
    \/ CalculateDirect
    \/ Finish
    \/ Handlers

Spec == Init /\ [][Next]_vars

(***************************************************************************)
(* The same program with a registry that holds a mode of each strategy     *)
(* kind execute_query dispatches on (lines 266-272).                       *)
(***************************************************************************)
AllKinds ==
    [m \in {"connections", "cpu", "ratio", "rate"} |->
        CASE m = "ratio" -> Entry("divide", "ratio", "%", "Ratio is %s")
          [] m = "rate" -> Entry("delta", "rate", "/s", "Rate is %s")
          [] OTHER -> ShippedModes[m]]

InitKinds == Start(AllKinds)

SpecKinds == InitKinds /\ [][Next]_vars

(***************************************************************************)
(* The Rate strategy: MSSQLDeltaQuery.do called on a connection, one call  *)
(* per process, process after process over the same temporary directory,   *)
(* each under the handlers of __main__.                                    *)
(***************************************************************************)
DeltaThresholds == {NoText, <<"5">>, <<"~", ":", "5">>}
InitialFiles ==
    {File("missing", 0, Zero), File("empty", 0, Zero), File("partial", 0, Zero),
     File("corrupt", 0, Zero), File("record", 1, Zero)}

InitDelta ==
    /\ python \in {2, 3}
    /\ argv = [given |-> Required, flags |-> {}, warning |-> NoText, critical |-> NoText]
    /\ intent = [warning |-> Absent, critical |-> Absent]
    /\ MODES = AllKinds
    /\ options = NoOptions
    /\ pc = "exit"
    /\ connected = TRUE
    /\ total = Zero
    /\ executed = 0
    /\ mssql_query = NoQuery
    /\ steps = <<>>
    /\ raised = NoException
    /\ printed = <<>>
    /\ exit_code = 0
    /\ \E f \in InitialFiles :
          tmpdir = [h \in Hosts |-> IF h = "db1" THEN f ELSE File("missing", 0, Zero)]
    /\ now = 1
    /\ runs = <<>>
    /\ nagstring = NoText
    /\ value = Zero
    /\ within = "unused"

DeltaDo ==
    /\ pc = "exit"
    /\ Len(runs) < MaxRuns
    /\ \E w \in DeltaThresholds, c \in DeltaThresholds :
          options' = [parsed |-> TRUE, mode |-> "rate", warning |-> w, critical |-> c]
    /\ \E h \in Hosts, m \in {1, 2} :
          mssql_query' = NewQuery("MSSQLDeltaQuery",
                                  [MODES["rate"] EXCEPT !.modifier = m], h)
    /\ executed' = 0
    /\ steps' = <<>>
    /\ raised' = NoException
    /\ printed' = <<>>
    /\ exit_code' = -1
    /\ pc' = "run_on_connection"
    /\ UNCHANGED <<python, argv, MODES, connected, total, tmpdir, now, runs, intent,
                   nagstring, value, within>>

NextDelta ==
    \/ DeltaDo
    \/ RunOnConnection
    \/ CalculateDelta
    \/ Finish
    \/ Handlers

SpecDelta == InitDelta /\ [][NextDelta]_vars

(***************************************************************************)
(* is_within_range as a function: the inputs are drawn, the call is made.  *)
(***************************************************************************)
RangeValues == {Rat(n, 2) : n \in (0 - 3)..(2 * IntStep * MaxMult + 3)}
RangeInputs ==
    {Absent, Empty} \cup RangeSpecsOver(Decimals) \cup {Malformed(t) : t \in BadTexts}

InitRange ==
    /\ python \in {2, 3}
    /\ \E r \in RangeInputs :
          /\ intent = [warning |-> r, critical |-> Absent]
          /\ nagstring = Text(r)
    /\ value \in RangeValues
    /\ within = "pending"
    /\ argv = [given |-> Required, flags |-> {}, warning |-> NoText, critical |-> NoText]
    /\ MODES = ShippedModes
    /\ options = NoOptions
    /\ pc = "is_within_range"
    /\ connected = FALSE
    /\ total = Zero
    /\ executed = 0
    /\ mssql_query = NoQuery
    /\ steps = <<>>
    /\ raised = NoException
    /\ printed = <<>>
    /\ exit_code = -1
    /\ tmpdir = [h \in Hosts |-> File("missing", 0, Zero)]
    /\ now = 1
    /\ runs = <<>>

IsWithinRange ==
    /\ pc = "is_within_range"
    /\ within = "pending"
    /\ within' = is_within_range(nagstring, value)
    /\ UNCHANGED <<python, argv, MODES, options, pc, connected, total, executed,
                   mssql_query, steps, raised, printed, exit_code, tmpdir, now, runs,
                   intent, nagstring, value>>

NextRange == IsWithinRange

SpecRange == InitRange /\ [][NextRange]_vars

(***************************************************************************)
(* Properties.                                                             *)
(***************************************************************************)
FullDo == <<"run_on_connection", "calculate_result", "finish">>

\* return_nagios was called by this invocation, which has exited
Evaluated ==
    /\ pc = "exit"
    /\ options.parsed
    /\ connected
    /\ options.mode = NoMode \/ steps = FullDo

\* the result return_nagios was called with
EvaluatedResult == IF options.mode = NoMode THEN total ELSE mssql_query.result

Severity(w, c, v) ==
    IF AlertCondition(c, v) THEN 2 ELSE IF AlertCondition(w, v) THEN 1 ELSE 0

Prefix(code) ==
    CASE code = 2 -> "CRITICAL: " [] code = 1 -> "WARNING: " [] OTHER -> "OK: "

\* C1: with a numeric result and well-formed warning and critical texts,
\* return_nagios reports CRITICAL (2) when critical alerts, WARNING (1) exactly
\* when critical does not alert and warning does, OK (0) exactly when neither
\* does; a value alerting on both is CRITICAL.
C1_CriticalThenWarningThenOk ==
    (/\ Evaluated
     /\ ~IsNone(EvaluatedResult)
     /\ WellFormed(intent.warning)
     /\ WellFormed(intent.critical))
    => LET code == Severity(intent.warning, intent.critical, EvaluatedResult)
       IN  /\ raised.type = "NagiosReturn"
           /\ exit_code = code
           /\ printed = <<raised.message>>
           /\ raised.message.prefix = Prefix(code)

C1_BothAlertReportedCritical ==
    /\ Evaluated
    /\ steps = FullDo
    /\ WellFormed(intent.warning)
    /\ WellFormed(intent.critical)
    /\ AlertCondition(intent.warning, EvaluatedResult)
    /\ AlertCondition(intent.critical, EvaluatedResult)
    /\ exit_code = 2

\* C2: is_within_range(text, v) is true exactly when the alert condition of
\* the text's grammar holds of v ("N": v > N or v < 0; "N:": v < N; "~:N":
\* v > N; "N:M": v < N or v > M; "@N:M": N <= v <= M), and false for an absent
\* or empty text.
C2_AlertConditionOfEachGrammar ==
    within # "pending"
    => /\ WellFormed(intent.warning)
          => within = PyBool(AlertCondition(intent.warning, value))
       /\ intent.warning.kind \in {"Absent", "Empty"} => within = "False"

C2_NegativeValueAlertsOnPlainNumber ==
    /\ within = "True"
    /\ intent.warning.kind = "AtMost"
    /\ Lt(value, Zero)
    /\ ~Gt(value, DecValue(intent.warning.lo))

\* C3: an invocation whose warning or critical text is non-empty and matches
\* none of the five grammars ends in a fault: it never reports OK, WARNING or
\* CRITICAL.
C3_MalformedNeverReports ==
    (/\ pc = "exit"
     /\ \/ intent.warning.kind = "Malformed"
        \/ intent.critical.kind = "Malformed")
    => raised.type # "NagiosReturn"

\* C4: a configuration fault (malformed threshold text, unknown mode name,
\* conflicting options) is reported before the database is connected to or a
\* query executed, and the invocation exits with code 3.
ConfigurationFault ==
    \/ intent.warning.kind = "Malformed"
    \/ intent.critical.kind = "Malformed"
    \/ ~(argv.flags \subseteq DOMAIN MODES)
    \/ Cardinality(argv.flags) > 1
    \/ {"instance", "port"} \subseteq argv.given

C4_ConfigurationFaultBeforeAnyQuery ==
    ConfigurationFault
    => /\ ~connected
       /\ executed = 0
       /\ pc = "exit" => exit_code = 3

\* C5: an Absent result (None) is reported OK, exit code 0, whatever the
\* warning and critical thresholds are: never WARNING, CRITICAL or a fault.
C5_AbsentResultIsOk ==
    (/\ pc = "exit"
     /\ steps = FullDo
     /\ IsNone(mssql_query.result))
    => /\ raised.type = "NagiosReturn"
       /\ exit_code = 0

\* the evaluations of host h so far, as indices of runs
RunsOf(h) == {i \in 1..Len(runs) : runs[i].host = h}
FirstOf(h) == CHOOSE i \in RunsOf(h) : \A j \in RunsOf(h) : i <= j
SecondOf(h) == CHOOSE i \in RunsOf(h) \ {FirstOf(h)} :
                   \A j \in RunsOf(h) \ {FirstOf(h)} : i <= j

\* C6: of two consecutive Rate evaluations of one identity starting from an
\* empty store, the first returns Absent and the second returns
\* ((new_value - old_value) / (new_time - old_time)) * modifier, computed from
\* the sample the first persisted (stated for a second evaluation at a later
\* time than the first, where the quotient is defined).
C6_FirstAbsentSecondRate ==
    \A h \in Hosts :
       (RunsOf(h) # {} /\ runs[FirstOf(h)].prior.state = "missing")
       => LET a == runs[FirstOf(h)]
          IN  /\ a.outcome = "absent"
              /\ IsNone(a.result)
              /\ Cardinality(RunsOf(h)) >= 2
                 => LET b == runs[SecondOf(h)]
                    IN  b.read_at # a.written_at
                        => /\ b.outcome = "rate"
                           /\ ~IsNone(b.result)
                           /\ Eq(b.result,
                                 Rat((b.value.n - a.value.n) * b.modifier,
                                     b.read_at - a.written_at))

\* C7: after every Rate evaluation of an identity, whether or not a previous
\* sample existed and whatever its value and timestamp (one equal to the
\* current time included), the stored record of that identity is this
\* invocation's (time, value) pair.  Stated for Python 2, where the dump
\* through the text-mode file works.
C7_StoreHoldsThisSample ==
    (/\ python = 2
     /\ Len(runs) > 0
     /\ runs[Len(runs)].prior.state \in {"missing", "empty", "record"})
    => LET r == runs[Len(runs)]
       IN  tmpdir[r.host] = File("record", r.written_at, r.value)

\* C8: every invocation, on every outcome, writes exactly one line to
\* standard output before exiting: the report on exit 0, 1 or 2, the fault
\* message on exit 3.  Stated for the invocations whose command line
\* parse_args accepted.
C8_ExactlyOneLine ==
    (pc = "exit" /\ options.parsed)
    => /\ Len(printed) = 1
       /\ exit_code \in {0, 1, 2, 3}
       /\ exit_code \in {0, 1, 2} => printed[1].prefix = Prefix(exit_code)

\* C9: a state file that is missing, empty, partially written or corrupted
\* loads as Absent: the evaluation yields an Absent result and saves the
\* current sample instead of failing.  Stated for Python 2, where loading
\* through the text-mode file works, and for the missing, the empty and the
\* corrupted file (a partially written one behaves as an empty or as a
\* corrupted one, depending on where it was cut).
C9_UnusableFileIsFirstRun ==
    (/\ python = 2
     /\ Len(runs) > 0
     /\ runs[Len(runs)].prior.state \in {"missing", "empty", "corrupt"})
    => LET r == runs[Len(runs)]
       IN  /\ r.outcome = "absent"
           /\ raised.type \notin {"UnpicklingError", "TypeError"}
           /\ tmpdir[r.host] = File("record", r.written_at, r.value)

\* C10: whatever the strategy kind of the mode, an invocation of
\* execute_query runs the strategy through run_on_connection,
\* calculate_result and finish in that order and ends Reported (exit 0, 1 or
\* 2) or Fault-Reported (exit 3); none returns without having fetched data,
\* computed the result and reported.
C10_EveryKindFetchesComputesReports ==
    (pc = "exit" /\ mssql_query.cls # "")
    => /\ executed >= 1
       /\ \/ /\ steps = FullDo
             /\ raised.type = "NagiosReturn"
             /\ exit_code \in {0, 1, 2}
             /\ Len(printed) >= 1
          \/ /\ raised.type \notin {"", "NagiosReturn", "SystemExit"}
             /\ exit_code = 3
             /\ Len(printed) >= 1

====
